---- MODULE Spec2Model ----
(***************************************************************************)
(* Character table of the symmetric group by the Murnaghan-Nakayama rule   *)
(* (src/cpp/lib.h): the border-strip sweep of get_border_strips as a state *)
(* machine, and the CharTable object (partitions, character_values) with   *)
(* its operations calculate_partitions, char_value and character_table.    *)
(*                                                                         *)
(* Vectors are sequences; the code's 0-based index i is position i + 1.    *)
(***************************************************************************)
EXTENDS Integers, Sequences, FiniteSets, TLC

VARIABLES
    \* ---- get_border_strips (lib.h 51-106): arguments and locals
    arg_lambda,          \* the partition passed in (lambda before the sweep)
    arg_bs_length,       \* the strip length passed in
    lambda,              \* the working copy of lambda
    xi,                  \* cells removed so far, per row
    row,
    first_non_zero_row,
    bs_length,
    result,              \* the pairs emitted so far
    pc,                  \* position in the sweep loop
    \* ---- CharTable (lib.h 32-178): the object's fields
    character_values,    \* lambda -> (rho -> value)
    partitions,          \* partitions[k + 1]: the partitions of k
    \* ---- the calls made on the object and what the last one did
    calls,               \* the calls so far, oldest first
    ret,                 \* what the last call returned
    enumerations,        \* get_border_strips runs during the last call
    fault,               \* the last call read rho[0] of an empty rho
    crashed              \* the process has ended in a crash

sweepVars == <<arg_lambda, arg_bs_length, lambda, xi, row,
               first_non_zero_row, bs_length, result, pc>>

objVars == <<character_values, partitions, calls, ret, enumerations, fault,
             crashed>>

vars == <<sweepVars, objVars>>

\* ------------------------------------------------------------------ bounds
MaxSize == 9       \* largest |lambda| given to the sweep
MaxExtra == 2      \* the strip length goes up to |lambda| + MaxExtra
MaxCalls == 2      \* calls made on one CharTable
MaxPartN == 8      \* largest n given to calculate_partitions
MaxTableN == 6     \* largest n given to character_table
MaxSum == 6        \* largest |lambda|, |rho| given to char_value
MaxSignN == 8      \* largest n for the sign character
MaxOrthN == 8      \* largest n for the orthogonality of the rows
MaxGarbage == 1    \* largest value an out-of-range read of rho[0] yields

\* ----------------------------------------------------------------- helpers
Min(a, b) == IF a < b THEN a ELSE b

\* The sum of the first k items of vec.
RECURSIVE SumTo(_, _)
SumTo(vec, k) == IF k = 0 THEN 0 ELSE SumTo(vec, k - 1) + vec[k]

Sum(vec) == SumTo(vec, Len(vec))

\* MinusOnePow that forgets the odd case.
MinusOnePow_one(power) == 1

MinusOnePow(power) == IF power % 2 = 0 THEN 1 ELSE -1

correct_partition(lam) == SelectSeq(lam, LAMBDA item : item > 0)

At(vec, i) == vec[i + 1]
Put(vec, i, x) == [vec EXCEPT ![i + 1] = x]

\* The integer partitions of n with parts at most k, each a non-increasing
\* sequence of positive parts: the inputs of the operations.
RECURSIVE PartsUpTo(_, _)
PartsUpTo(n, k) ==
    IF n = 0 THEN {<<>>}
    ELSE UNION {{<<p>> \o q : q \in PartsUpTo(n - p, p)} : p \in 1..Min(n, k)}

PartsOf(n) == PartsUpTo(n, n)

\* ------------------------------------------------- get_border_strips, steps
SweepStart(lam, m) ==
    [lambda |-> lam, xi |-> [i \in 1..Len(lam) |-> 0], row |-> 0,
     first_non_zero_row |-> 0, bs_length |-> m, result |-> <<>>,
     pc |-> "loop"]

LoopCond(s) == s.bs_length > 0 /\ s.row < Len(s.lambda)

IsLastRow(s) == s.row + 1 = Len(s.lambda)

IsLeftStep(s) == At(s.lambda, s.row) > At(s.lambda, s.row + 1)

last_left_step(s) ==
    LET step == Min(s.bs_length, At(s.lambda, s.row))
        t ==[s EXCEPT !.bs_length = @ - step,
                       !.lambda = Put(@, s.row, At(@, s.row) - step),
                       !.xi = Put(@, s.row, At(@, s.row) + step)]
    IN  [t EXCEPT !.pc = IF t.bs_length > 0 THEN "done" ELSE "emit"]

\* left_step without the bound by the next row's size.
left_step_unbounded(s) ==
    LET step == Min(s.bs_length, At(s.lambda, s.row))
    IN  [s EXCEPT !.bs_length = @ - step,
                  !.lambda = Put(@, s.row, At(@, s.row) - step),
                  !.xi = Put(@, s.row, At(@, s.row) + step),
                  !.pc = "emit"]

left_step(s) ==
    LET step == Min(s.bs_length, At(s.lambda, s.row) - At(s.lambda, s.row + 1))
    IN  [s EXCEPT !.bs_length = @ - step,
                  !.lambda = Put(@, s.row, At(@, s.row) - step),
                  !.xi = Put(@, s.row, At(@, s.row) + step),
                  !.pc = "emit"]

\* while (row < lambda.size() and lambda[row] == lambda[prev_row])
RECURSIVE down_walk(_, _)
down_walk(s, prev_row) ==
    IF s.row < Len(s.lambda) /\ At(s.lambda, s.row) = At(s.lambda, prev_row)
    THEN down_walk([s EXCEPT !.bs_length = @ - 1,
                             !.xi = Put(@, s.row, At(@, s.row) + 1),
                             !.row = @ + 1], prev_row)
    ELSE s

\* down_step without the step back to the last row of the run (row -= 1).
down_step_no_back(s) ==
    LET prev_row == s.row
        t == down_walk(s, prev_row)
    IN  [t EXCEPT !.lambda = [i \in 1..Len(@) |->
                                 IF prev_row <= i - 1 /\ i - 1 < t.row
                                 THEN @[i] - 1 ELSE @[i]],
                  !.pc = "refund"]

down_step(s) ==
    LET prev_row == s.row
        t == down_walk(s, prev_row)
    IN  [t EXCEPT !.lambda = [i \in 1..Len(@) |->
                                 IF prev_row <= i - 1 /\ i - 1 < t.row
                                 THEN @[i] - 1 ELSE @[i]],
                  !.row = @ - 1,
                  !.pc = "refund"]

\* One pass of while (bs_length < 0): an index past the end is an
\* out-of-range access, recorded as pc = "oob".
refund(s) ==
    IF s.bs_length >= 0 THEN [s EXCEPT !.pc = "emit"]
    ELSE IF s.first_non_zero_row >= Len(s.lambda) THEN [s EXCEPT !.pc = "oob"]
    ELSE LET f == s.first_non_zero_row
         IN  [s EXCEPT !.lambda = Put(@, f, At(@, f) + At(s.xi, f)),
                       !.bs_length = @ + At(s.xi, f),
                       !.xi = Put(@, f, 0),
                       !.first_non_zero_row = @ + 1]

\* emit that records the pair after giving the first strip row back.
emit_after_restart(s) ==
    IF s.bs_length # 0 THEN [s EXCEPT !.pc = "loop"]
    ELSE IF s.first_non_zero_row >= Len(s.lambda) THEN [s EXCEPT !.pc = "oob"]
    ELSE LET f == s.first_non_zero_row
             adv == IF s.row = f THEN 1 ELSE 0
             lam2 == Put(s.lambda, f, At(s.lambda, f) + At(s.xi, f))
             xi2 == Put(s.xi, f, 0)
         IN  [s EXCEPT !.result = Append(@, [partition |-> lam2,
                                              border_strip |-> xi2]),
                       !.lambda = lam2,
                       !.bs_length = @ + At(s.xi, f),
                       !.xi = xi2,
                       !.row = @ + adv,
                       !.first_non_zero_row = @ + adv,
                       !.pc = "loop"]

\* if (bs_length == 0): emit the pair, give the first strip row back.
emit(s) ==
    IF s.bs_length # 0 THEN [s EXCEPT !.pc = "loop"]
    ELSE IF s.first_non_zero_row >= Len(s.lambda)
    THEN [s EXCEPT !.result = Append(@, [partition |-> s.lambda,
                                          border_strip |-> s.xi]),
                   !.pc = "oob"]
    ELSE LET f == s.first_non_zero_row
             adv == IF s.row = f THEN 1 ELSE 0
         IN  [s EXCEPT !.result = Append(@, [partition |-> s.lambda,
                                              border_strip |-> s.xi]),
                       !.lambda = Put(@, f, At(@, f) + At(s.xi, f)),
                       !.bs_length = @ + At(s.xi, f),
                       !.xi = Put(@, f, 0),
                       !.row = @ + adv,
                       !.first_non_zero_row = @ + adv,
                       !.pc = "loop"]

SweepStep(s) ==
    IF s.pc = "refund" THEN refund(s)
    ELSE IF s.pc = "emit" THEN emit(s)
    ELSE IF ~LoopCond(s) THEN [s EXCEPT !.pc = "done"]
    ELSE IF IsLastRow(s) THEN last_left_step(s)
    ELSE IF IsLeftStep(s) THEN left_step(s)
    ELSE down_step(s)

RECURSIVE SweepRun(_)
SweepRun(s) == IF s.pc \in {"done", "oob"} THEN s ELSE SweepRun(SweepStep(s))

get_border_strips(lam, m) == SweepRun(SweepStart(lam, m))

\* ---------------------------------------- get_border_strips, state machine
cur ==
    [lambda |-> lambda, xi |-> xi, row |-> row,
     first_non_zero_row |-> first_non_zero_row, bs_length |-> bs_length,
     result |-> result, pc |-> pc]

SetSweep(s) ==
    /\ lambda' = s.lambda
    /\ xi' = s.xi
    /\ row' = s.row
    /\ first_non_zero_row' = s.first_non_zero_row
    /\ bs_length' = s.bs_length
    /\ result' = s.result
    /\ pc' = s.pc
    /\ UNCHANGED <<arg_lambda, arg_bs_length, objVars>>

\* A CharTable as constructed (lib.h 34-35).
InitObject ==
    /\ character_values = <<>>
    /\ partitions = <<<< <<>> >>, << <<1>> >>>>
    /\ calls = <<>>
    /\ ret = <<>>
    /\ enumerations = 0
    /\ fault = FALSE
    /\ crashed = FALSE

SweepInputs == UNION {PartsOf(n) : n \in 1..MaxSize}

InitSweep ==
    /\ InitObject
    /\ arg_lambda \in SweepInputs
    /\ arg_bs_length \in 1..(Sum(arg_lambda) + MaxExtra)
    /\ lambda = arg_lambda
    /\ xi = [i \in 1..Len(arg_lambda) |-> 0]
    /\ row = 0
    /\ first_non_zero_row = 0
    /\ bs_length = arg_bs_length
    /\ result = <<>>
    /\ pc = "loop"

SweepExit == pc = "loop" /\ ~LoopCond(cur) /\ SetSweep(SweepStep(cur))

LastLeftStep ==
    pc = "loop" /\ LoopCond(cur) /\ IsLastRow(cur) /\ SetSweep(SweepStep(cur))

LeftStep ==
    /\ pc = "loop" /\ LoopCond(cur) /\ ~IsLastRow(cur) /\ IsLeftStep(cur)
    /\ SetSweep(SweepStep(cur))

DownStep ==
    /\ pc = "loop" /\ LoopCond(cur) /\ ~IsLastRow(cur) /\ ~IsLeftStep(cur)
    /\ SetSweep(SweepStep(cur))

Refund == pc = "refund" /\ bs_length < 0 /\ SetSweep(SweepStep(cur))

RefundEnd == pc = "refund" /\ bs_length >= 0 /\ SetSweep(SweepStep(cur))

Emit == pc = "emit" /\ bs_length = 0 /\ SetSweep(SweepStep(cur))

NoEmit == pc = "emit" /\ bs_length # 0 /\ SetSweep(SweepStep(cur))

NextSweep ==
    \/ SweepExit
    \/ LastLeftStep
    \/ LeftStep
    \/ DownStep
    \/ Refund
    \/ RefundEnd
    \/ Emit
    \/ NoEmit

SpecSweep == InitSweep /\ [][NextSweep]_vars

IdleSweep ==
    /\ arg_lambda = <<>> /\ arg_bs_length = 0 /\ lambda = <<>> /\ xi = <<>>
    /\ row = 0 /\ first_non_zero_row = 0 /\ bs_length = 0 /\ result = <<>>
    /\ pc = "idle"

\* ------------------------------------------------------ calculate_partitions
\* std::sort(rbegin, rend): into non-increasing order.
RECURSIVE InsertDesc(_, _)
InsertDesc(x, vec) ==
    IF vec = <<>> THEN <<x>>
    ELSE IF x >= Head(vec) THEN <<x>> \o vec
    ELSE <<Head(vec)>> \o InsertDesc(x, Tail(vec))

RECURSIVE SortDesc(_)
SortDesc(vec) ==
    IF vec = <<>> THEN <<>> ELSE InsertDesc(Head(vec), SortDesc(Tail(vec)))

\* std::unique and erase: of each run of equal neighbours the first is kept.
\* The vector is halved, each half is done, and the halves are joined
\* dropping the head of the second when it repeats the last of the first.
RECURSIVE Unique(_)
Unique(vec) ==
    IF Len(vec) < 2 THEN vec
    ELSE LET mid == Len(vec) \div 2
             left == Unique(SubSeq(vec, 1, mid))
             right == Unique(SubSeq(vec, mid + 1, Len(vec)))
         IN  IF left[Len(left)] = right[1] THEN left \o Tail(right)
             ELSE left \o right

\* The two inner loops: for index in [index, num), for partition in
\* partitions[index], the partition with num - index appended and sorted.
RECURSIVE partitions_of_num(_, _, _)
\* partitions_of_num without the sort of the new partition.
partitions_of_num_unsorted(parts, num, index) ==
    IF index >= num THEN <<>>
    ELSE [j \in 1..Len(At(parts, index)) |->
              Append(At(parts, index)[j], num - index)]
         \o partitions_of_num(parts, num, index + 1)

partitions_of_num(parts, num, index) ==
    IF index >= num THEN <<>>
    ELSE [j \in 1..Len(At(parts, index)) |->
              SortDesc(Append(At(parts, index)[j], num - index))]
         \o partitions_of_num(parts, num, index + 1)

\* The outer loop: for num from partitions.size() to n.
RECURSIVE calculate_partitions(_, _)
calculate_partitions(parts, n) ==
    IF Len(parts) >= n + 1 THEN parts
    ELSE calculate_partitions(
             Append(parts, Unique(partitions_of_num(parts, Len(parts), 0))), n)

\* ---------------------------------------------------------------- char_value
\* What an out-of-range read can do: end the process, or yield some value;
\* and what building the tail of an empty rho can do.
UBOutcomes ==
    {[crash |-> TRUE, garbage |-> 0, tail_crash |-> TRUE]}
    \cup [crash : {FALSE}, garbage : 0..MaxGarbage, tail_crash : BOOLEAN]

NoUB == [crash |-> TRUE, garbage |-> 0, tail_crash |-> TRUE]

Store(values, lam, rho, v) == [values EXCEPT ![lam] = (rho :> v) @@ @]

\* st = [values, val, cells, enumerations, fault, crashed]: character_values
\* and the call's outcome, threaded through the recursion.
RECURSIVE char_value(_, _, _, _)
RECURSIVE strip_sum(_, _, _, _, _, _)
\* char_value that returns the result without storing it (line 155 left out).
char_value_no_store(lambda_in, rho_in, st, ub) ==
    LET lam == correct_partition(lambda_in)
        rho == correct_partition(rho_in)
    IN  IF st.crashed THEN st
        ELSE IF Sum(lam) < 2 THEN [st EXCEPT !.val = 1]
        ELSE
        LET \* character_values[lambda] creates the inner map when absent
            touched == IF lam \in DOMAIN st.values THEN st.values
                       ELSE (lam :> <<>>) @@ st.values
        IN  IF rho \in DOMAIN touched[lam]
            THEN [st EXCEPT !.values = touched, !.val = touched[lam][rho]]
            ELSE IF rho = <<>> /\ ub.crash
            THEN [st EXCEPT !.values = touched, !.fault = TRUE, !.crashed = TRUE]
            ELSE
            LET first == IF rho = <<>> THEN ub.garbage ELSE rho[1]
                sw == get_border_strips(lam, first)
                st1 == [st EXCEPT !.values = touched,
                                  !.fault = @ \/ rho = <<>>,
                                  !.enumerations = @ + 1]
            IN  IF sw.pc = "oob"
                THEN [st1 EXCEPT !.fault = TRUE, !.crashed = TRUE]
                ELSE
                LET r == strip_sum(sw.result, 1, rho, 0, st1, ub)
                IN  r

char_value(lambda_in, rho_in, st, ub) ==
    LET lam == correct_partition(lambda_in)
        rho == correct_partition(rho_in)
    IN  IF st.crashed THEN st
        ELSE IF Sum(lam) < 2 THEN [st EXCEPT !.val = 1]
        ELSE
        LET \* character_values[lambda] creates the inner map when absent
            touched == IF lam \in DOMAIN st.values THEN st.values
                       ELSE (lam :> <<>>) @@ st.values
        IN  IF rho \in DOMAIN touched[lam]
            THEN [st EXCEPT !.values = touched, !.val = touched[lam][rho]]
            ELSE IF rho = <<>> /\ ub.crash
            THEN [st EXCEPT !.values = touched, !.fault = TRUE, !.crashed = TRUE]
            ELSE
            LET first == IF rho = <<>> THEN ub.garbage ELSE rho[1]
                sw == get_border_strips(lam, first)
                st1 == [st EXCEPT !.values = touched,
                                  !.fault = @ \/ rho = <<>>,
                                  !.enumerations = @ + 1]
            IN  IF sw.pc = "oob"
                THEN [st1 EXCEPT !.fault = TRUE, !.crashed = TRUE]
                ELSE
                LET r == strip_sum(sw.result, 1, rho, 0, st1, ub)
                IN  IF r.crashed THEN r
                    ELSE [r EXCEPT !.values = Store(@, lam, rho, r.val)]

\* for (pair : border_strips) result += sign * char_value(partition, tail)
strip_sum(strips, k, rho, acc, st, ub) ==
    IF k > Len(strips) THEN [st EXCEPT !.val = acc]
    ELSE IF rho = <<>> /\ ub.tail_crash
    THEN [st EXCEPT !.fault = TRUE, !.crashed = TRUE]
    ELSE
    LET partition == correct_partition(strips[k].partition)
        strip == correct_partition(strips[k].border_strip)
        tail == IF rho = <<>> THEN <<>> ELSE Tail(rho)
        r == char_value(partition, tail, st, ub)
    IN  IF r.crashed THEN r
        ELSE strip_sum(strips, k + 1, rho,
                       acc + MinusOnePow(Len(strip) - 1) * r.val, r, ub)

\* ----------------------------------------------------------- character_table
\* The loops of character_table run their index range [lo, hi) by halves:
\* the first half, then the second half from the state the first leaves, so
\* the calls of char_value are made in the code's order.
\* The inner loop: the cells of row i_index for j_index in [lo, hi), in
\* st.cells.
RECURSIVE table_row(_, _, _, _, _, _)
table_row(parts_n, i_index, lo, hi, st, ub) ==
    IF lo >= hi \/ st.crashed THEN [st EXCEPT !.cells = <<>>]
    ELSE IF hi = lo + 1
    THEN LET r == char_value(At(parts_n, i_index), At(parts_n, lo), st, ub)
         IN  [r EXCEPT !.cells = <<r.val>>]
    ELSE LET mid == (lo + hi) \div 2
             a == table_row(parts_n, i_index, lo, mid, st, ub)
             b == table_row(parts_n, i_index, mid, hi, a, ub)
         IN  [b EXCEPT !.cells = a.cells \o @]

\* The outer loop: the rows for i_index in [lo, hi), in st.val.
RECURSIVE table_rows(_, _, _, _, _)
table_rows(parts_n, lo, hi, st, ub) ==
    IF lo >= hi \/ st.crashed THEN [st EXCEPT !.val = <<>>]
    ELSE IF hi = lo + 1
    THEN LET r == table_row(parts_n, lo, 0, Len(parts_n), st, ub)
         IN  [r EXCEPT !.val = <<r.cells>>]
    ELSE LET mid == (lo + hi) \div 2
             a == table_rows(parts_n, lo, mid, st, ub)
             b == table_rows(parts_n, mid, hi, a, ub)
         IN  [b EXCEPT !.val = a.val \o @]

character_table(parts_n, st, ub) == table_rows(parts_n, 0, Len(parts_n), st, ub)

\* ------------------------------------------------------- CharTable, actions
CallState == [values |-> character_values, val |-> 0, cells |-> <<>>,
              enumerations |-> 0, fault |-> FALSE, crashed |-> FALSE]

Returned(call, r) ==
    /\ character_values' = r.values
    /\ calls' = Append(calls, call)
    /\ ret' = IF r.crashed THEN <<>> ELSE r.val
    /\ enumerations' = r.enumerations
    /\ fault' = r.fault
    /\ crashed' = r.crashed

CanCall == ~crashed /\ Len(calls) < MaxCalls

CalculatePartitions(n) ==
    /\ CanCall
    /\ partitions' = calculate_partitions(partitions, n)
    /\ calls' = Append(calls, [name |-> "calculate_partitions", n |-> n])
    /\ ret' = At(partitions', n)
    /\ enumerations' = 0
    /\ UNCHANGED <<character_values, fault, crashed, sweepVars>>

\* A call that reads nothing out of range does the same whatever such a read
\* would do; one that does has an outcome for each thing the read can do.
\* (\E r \in {e} names the value of e.)
CharValue(lam, rho) ==
    /\ CanCall
    /\ \E r \in {char_value(lam, rho, CallState, NoUB)} :
          IF ~r.fault
          THEN Returned([name |-> "char_value", lambda |-> lam, rho |-> rho], r)
          ELSE \E ub \in UBOutcomes :
                 \E q \in {char_value(lam, rho, CallState, ub)} :
                    Returned([name |-> "char_value", lambda |-> lam,
                              rho |-> rho], q)
    /\ UNCHANGED <<partitions, sweepVars>>

CharacterTable(n) ==
    /\ CanCall
    /\ partitions' = calculate_partitions(partitions, n)
    /\ \E r \in {character_table(At(partitions', n), CallState, NoUB)} :
          IF ~r.fault
          THEN Returned([name |-> "character_table", n |-> n], r)
          ELSE \E ub \in UBOutcomes :
                 \E q \in {character_table(At(partitions', n), CallState, ub)} :
                    Returned([name |-> "character_table", n |-> n], q)
    /\ UNCHANGED sweepVars

LastCall == calls[Len(calls)]

\* calculate_partitions and character_table on one CharTable.
InitTable == IdleSweep /\ InitObject

NextTable ==
    \/ \E n \in 0..MaxPartN : CalculatePartitions(n)
    \/ \E n \in 0..MaxTableN : CharacterTable(n)

SpecTable == InitTable /\ [][NextTable]_vars

\* calculate_partitions and character_table, the tables up to MaxOrthN.
NextOrth ==
    \/ \E n \in 0..MaxPartN : CalculatePartitions(n)
    \/ \E n \in 0..MaxOrthN : CharacterTable(n)

SpecOrth == InitTable /\ [][NextOrth]_vars

\* char_value on its own, on any pair of partitions, one CharTable being
\* used for one pair of sums |lambda|, |rho|.
ValueInputs == [n \in 0..MaxSum |-> PartsOf(n)]

NextValue ==
    \E a \in 0..MaxSum, b \in 0..MaxSum :
        /\ IF calls = <<>> THEN TRUE
           ELSE a = Sum(calls[1].lambda) /\ b = Sum(calls[1].rho)
        /\ \E lam \in ValueInputs[a], rho \in ValueInputs[b] : CharValue(lam, rho)

SpecValue == InitTable /\ [][NextValue]_vars

\* char_value of the partition [1,1,...,1] of n on the partitions of n, one
\* CharTable being used for one n.
Ones(n) == [i \in 1..n |-> 1]

NextSign ==
    \E n \in 1..MaxSignN :
        /\ IF calls = <<>> THEN TRUE ELSE Sum(calls[1].rho) = n
        /\ \E rho \in PartsOf(n) : CharValue(Ones(n), rho)

SpecSign == InitTable /\ [][NextSign]_vars

\* ------------------------------------------------ border strips, reference
\* The sequences p of Len(lam) naturals with p[i] <= lam[i].
RECURSIVE Below(_)
Below(lam) ==
    IF lam = <<>> THEN {<<>>}
    ELSE {<<h>> \o t : h \in 0..Head(lam), t \in Below(Tail(lam))}

NonIncreasing(p) == \A i \in 1..(Len(p) - 1) : p[i] >= p[i + 1]

\* The cells of lam outside p, as <<row, column>>.
StripCells(lam, p) ==
    {c \in (1..Len(lam)) \X (1..Sum(lam)) : p[c[1]] < c[2] /\ c[2] <= lam[c[1]]}

Has2x2(cells) ==
    \E c \in cells : /\ <<c[1] + 1, c[2]>> \in cells
                     /\ <<c[1], c[2] + 1>> \in cells
                     /\ <<c[1] + 1, c[2] + 1>> \in cells

\* The rows of the strip are consecutive and neighbouring rows share a column.
ConnectedRows(cells) ==
    LET rows == {c[1] : c \in cells}
    IN  \A i \in rows, k \in rows :
            i < k => /\ i + 1 \in rows
                     /\ \E c \in cells : c[1] = i /\ <<i + 1, c[2]>> \in cells

\* (p, x) is lam with a border strip x of m cells removed.
IsStripRemoval(lam, m, p, x) ==
    /\ Len(p) = Len(lam) /\ Len(x) = Len(lam)
    /\ \A i \in 1..Len(lam) : p[i] \in Nat /\ x[i] \in Nat /\ p[i] + x[i] = lam[i]
    /\ Sum(x) = m
    /\ NonIncreasing(p)
    /\ ~Has2x2(StripCells(lam, p))
    /\ ConnectedRows(StripCells(lam, p))

ValidStrips(lam, m) ==
    {[partition |-> p, border_strip |-> [i \in 1..Len(lam) |-> lam[i] - p[i]]] :
        p \in {q \in Below(lam) :
                 IsStripRemoval(lam, m, q, [i \in 1..Len(lam) |-> lam[i] - q[i]])}}

\* The number of cells of lam whose hook length is m.
HookCount(lam, m) ==
    Cardinality({c \in (1..Len(lam)) \X (1..Sum(lam)) :
        /\ c[2] <= lam[c[1]]
        /\ (lam[c[1]] - c[2])
             + Cardinality({k \in (c[1] + 1)..Len(lam) : lam[k] >= c[2]}) + 1 = m})

Emitted == {result[k] : k \in 1..Len(result)}

\* --------------------------------------------------------- claims, sweep
\* C1: completeness of get_border_strips. For 1 <= m <= |lambda| the returned
\* vector holds every removal of a border strip of m cells exactly once, so
\* its length is the number of cells of lambda with hook length m.
C1_Complete ==
    (pc = "done" /\ arg_bs_length <= Sum(arg_lambda)) =>
        /\ Emitted = ValidStrips(arg_lambda, arg_bs_length)
        /\ Len(result) = Cardinality(Emitted)
        /\ Len(result) = HookCount(arg_lambda, arg_bs_length)

\* C2: soundness of get_border_strips. Every pair appended to the result is
\* lambda with a connected, 2x2-free border strip of exactly m cells removed,
\* and what remains is non-increasing.
C2_Sound ==
    \A k \in 1..Len(result) :
        IsStripRemoval(arg_lambda, arg_bs_length,
                       result[k].partition, result[k].border_strip)

C2_Witness ==
    /\ pc = "done"
    /\ Len(result) >= 2
    /\ \E k \in 1..Len(result) :
          Cardinality({i \in 1..Len(arg_lambda) : result[k].border_strip[i] > 0}) >= 2

\* C9 (as amended): for lambda = [3,1] and strip length 2 exactly one pair is
\* returned, the one that removes two cells from the end of the top row.
C9_OnePair ==
    (pc = "done" /\ arg_lambda = <<3, 1>> /\ arg_bs_length = 2) =>
        result = <<[partition |-> <<1, 1>>, border_strip |-> <<2, 0>>]>>

C9_Witness ==
    pc = "done" /\ arg_lambda = <<3, 1>> /\ arg_bs_length = 2 /\ Len(result) = 1

\* C9 (as stated): for lambda = [3,1] and strip length 2 exactly two pairs are
\* returned, one removing two cells of the top row and one removing the
\* bottom row plus one cell.
C9_TwoPairs ==
    (pc = "done" /\ arg_lambda = <<3, 1>> /\ arg_bs_length = 2) =>
        /\ Len(result) = 2
        /\ \E k \in 1..Len(result) : result[k].border_strip = <<2, 0>>
        /\ \E k \in 1..Len(result) : result[k].border_strip = <<1, 1>>

\* C10: index safety of the sweep. Every index used to read or write lambda
\* and xi is in range: row < len(lambda) in the step branches, and
\* first_non_zero_row <= row < len(lambda) in the refund loop and in the
\* restart after an emit; no subtraction of the unsigned cells wraps.
C10_IndexSafe ==
    /\ pc # "oob"
    /\ (pc = "loop" /\ LoopCond(cur)) => row < Len(lambda)
    /\ (pc = "refund" /\ bs_length < 0) =>
          first_non_zero_row <= row /\ row < Len(lambda)
    /\ (pc = "emit" /\ bs_length = 0) =>
          first_non_zero_row <= row /\ row < Len(lambda)
    /\ \A i \in 1..Len(lambda) : lambda[i] >= 0 /\ xi[i] >= 0

C10_Witness ==
    /\ pc = "refund" /\ bs_length < 0
    /\ first_non_zero_row > 0
    /\ row + 1 = Len(lambda)
    /\ arg_bs_length > 1

\* ------------------------------------------------------ claims, CharTable
\* C3: for n in 0..8 calculate_partitions(n) returns each integer partition
\* of n exactly once, so as many as p(n) = 1, 1, 2, 3, 5, 7, 11, 15, 22.
PartitionNumbers == <<1, 1, 2, 3, 5, 7, 11, 15, 22>>

C3_EachOnce ==
    (calls # <<>> /\ LastCall.name = "calculate_partitions" /\ LastCall.n <= 8) =>
        /\ \A k \in 1..Len(ret) : ret[k] \in PartsOf(LastCall.n)
        /\ \A q \in PartsOf(LastCall.n) :
              Cardinality({k \in 1..Len(ret) : ret[k] = q}) = 1
        /\ Len(ret) = At(PartitionNumbers, LastCall.n)

\* The values char_value returns in this state.
ValueNow(lam, rho) == char_value(lam, rho, CallState, NoUB).val

RECURSIVE Factorial(_)
Factorial(n) == IF n = 0 THEN 1 ELSE n * Factorial(n - 1)

RECURSIVE Power(_, _)
Power(b, e) == IF e = 0 THEN 1 ELSE b * Power(b, e - 1)

Multiplicity(rho, i) == Cardinality({k \in 1..Len(rho) : rho[k] = i})

\* z_rho: the product over i of i^(m_i) * m_i!
RECURSIVE CentralizerUpTo(_, _)
CentralizerUpTo(rho, i) ==
    IF i = 0 THEN 1
    ELSE CentralizerUpTo(rho, i - 1)
         * Power(i, Multiplicity(rho, i)) * Factorial(Multiplicity(rho, i))

Centralizer(rho) == CentralizerUpTo(rho, Sum(rho))

\* The sum over the partitions rho in set of
\* char_value(lam, rho) * char_value(mu, rho) * (n! / z_rho).
RECURSIVE RowProductOver(_, _, _, _)
RowProductOver(set, n, lam, mu) ==
    IF set = {} THEN 0
    ELSE LET rho == CHOOSE y \in set : TRUE
         IN  ValueNow(lam, rho) * ValueNow(mu, rho)
               * (Factorial(n) \div Centralizer(rho))
             + RowProductOver(set \ {rho}, n, lam, mu)

RowProduct(n, lam, mu) == RowProductOver(PartsOf(n), n, lam, mu)

\* C4: row orthogonality of the values of char_value. Once character_table(n)
\* has computed them, for n in 1..8 and all partitions lambda, mu of n the sum
\* over the partitions rho of n of
\* char_value(lambda, rho) * char_value(mu, rho) * (n! / z_rho)
\* is n! if lambda = mu and 0 otherwise.
C4_Orthogonal ==
    (calls # <<>> /\ LastCall.name = "character_table" /\ LastCall.n >= 1) =>
        \A lam \in PartsOf(LastCall.n), mu \in PartsOf(LastCall.n) :
            RowProduct(LastCall.n, lam, mu)
              = IF lam = mu THEN Factorial(LastCall.n) ELSE 0

\* C5: on a fresh CharTable calculate_partitions(3) returns [3], [2,1],
\* [1,1,1] in that order and character_table(3) returns the rows (1, 1, 1),
\* (-1, 0, 2), (1, -1, 1) in that row and column order.
C5_TableOfThree ==
    /\ (Len(calls) = 1 /\ calls[1] = [name |-> "calculate_partitions", n |-> 3])
          => ret = << <<3>>, <<2, 1>>, <<1, 1, 1>> >>
    /\ (Len(calls) = 1 /\ calls[1] = [name |-> "character_table", n |-> 3])
          => /\ At(partitions, 3) = << <<3>>, <<2, 1>>, <<1, 1, 1>> >>
             /\ ret = << <<1, 1, 1>>, <<-1, 0, 2>>, <<1, -1, 1>> >>

C5_Witness ==
    /\ Len(calls) = 1
    /\ calls[1] = [name |-> "character_table", n |-> 3]
    /\ Len(ret) = 3
    /\ ret[2] = <<-1, 0, 2>>

\* The product over the parts of rho of (-1)^(rho_i - 1).
RECURSIVE SignOf(_)
SignOf(rho) ==
    IF rho = <<>> THEN 1
    ELSE (IF (Head(rho) - 1) % 2 = 0 THEN 1 ELSE -1) * SignOf(Tail(rho))

\* C6: the sign character. For n in 1..8 and every partition rho of n,
\* char_value([1,1,...,1] with n ones, rho) is the product over the parts of
\* rho of (-1)^(rho_i - 1).
C6_SignCharacter ==
    (/\ calls # <<>>
     /\ LastCall.name = "char_value"
     /\ Sum(LastCall.rho) >= 1
     /\ LastCall.lambda = Ones(Sum(LastCall.rho))) =>
        /\ ~crashed
        /\ ret = SignOf(LastCall.rho)

C6_Witness ==
    /\ Len(calls) = 2
    /\ LastCall.lambda = Ones(8)
    /\ LastCall.rho = <<3, 2, 1, 1, 1>>
    /\ calls[1] # calls[2]
    /\ ret = -1

\* C7: char_value does not crash on mismatched sums. For lambda and rho with
\* different sums the call returns an integer and reads nothing out of
\* range; no call in the recursion reads rho[0] of an empty rho.
C7_NoFault ==
    (/\ calls # <<>>
     /\ LastCall.name = "char_value"
     /\ Sum(LastCall.lambda) # Sum(LastCall.rho)) =>
        /\ ~fault
        /\ ~crashed
        /\ ret \in Int

\* C8: idempotence of character_table. A call of character_table(n) right
\* after a call of character_table(n) returns the same table, leaves
\* character_values and partitions as they are and runs no border-strip
\* enumeration.
C8_Idempotent ==
    [][(/\ calls # <<>>
        /\ LastCall.name = "character_table"
        /\ calls' = Append(calls, LastCall))
       => /\ ret' = ret
          /\ character_values' = character_values
          /\ partitions' = partitions
          /\ enumerations' = 0
          /\ ~crashed']_vars

C8_Witness ==
    /\ Len(calls) = 2
    /\ calls[1] = calls[2]
    /\ calls[1] = [name |-> "character_table", n |-> 6]
    /\ enumerations = 0
    /\ Len(ret) > 11

====
